---- MODULE Spec2Model ----
(***************************************************************************)
(* Model of the TIIMU rule DSL core: the shared AST (tiimu-expr-ast), the  *)
(* static type checker (tiimu-expr-typecheck) and the runtime evaluator    *)
(* (tiimu-expr-eval).                                                      *)
(*                                                                         *)
(* Representation.  A Rust String is a sequence of one-character strings,  *)
(* so that joining, substring search and lexicographic order are computed. *)
(* An f64 is an integer (NaN and fractions are outside the model).  Enum   *)
(* variants are records tagged by a discriminating field.  Function names  *)
(* are only ever compared, they are kept as atomic strings.                *)
(***************************************************************************)
EXTENDS Integers, Sequences, FiniteSets, TLC

VARIABLES expr, dict, ctx, fns, pc, nreg, tc, deps, result, trace,
          source, parsed, regs

vars == <<expr, dict, ctx, fns, pc, nreg, tc, deps, result, trace,
          source, parsed, regs>>

(***************************************************************************)
(* Bounds of the model.                                                    *)
(***************************************************************************)
MaxRegister == 1

\* Registrations in a run that only builds a registry.
MaxRegistrySeq == 3

(***************************************************************************)
(* Strings.                                                                *)
(***************************************************************************)
\* Characters that occur in the model, in ascending code point order.
Alphabet == <<"(", ".", "^", "a", "b", "c", "d", "x", "y", "z">>

CharCode(c) == CHOOSE i \in 1..Len(Alphabet) : Alphabet[i] = c

RECURSIVE str_lt(_, _)
\* Lexicographic order of two strings (String's PartialOrd).
str_lt(x, y) ==
    IF y = <<>> THEN FALSE
    ELSE IF x = <<>> THEN TRUE
    ELSE IF Head(x) # Head(y) THEN CharCode(Head(x)) < CharCode(Head(y))
    ELSE str_lt(Tail(x), Tail(y))

\* str::contains: sub occurs in s as a contiguous substring.
str_contains(s, sub) ==
    \E i \in 0..(Len(s) - Len(sub)) : SubSeq(s, i + 1, i + Len(sub)) = sub

\* str::starts_with
str_starts_with(s, p) ==
    Len(p) <= Len(s) /\ SubSeq(s, 1, Len(p)) = p

RECURSIVE join(_, _)
\* [String]::join(sep)
join(segs, sep) ==
    IF segs = <<>> THEN <<>>
    ELSE IF Len(segs) = 1 THEN segs[1]
    ELSE segs[1] \o sep \o join(Tail(segs), sep)

(***************************************************************************)
(* AST (tiimu-expr-ast).                                                   *)
(***************************************************************************)
FieldRef_new(path) == [path |-> path]

as_dotted(fr) == join(fr.path, <<".">>)

LitBool(b)   == [lit |-> "Bool", b |-> b]
LitNumber(n) == [lit |-> "Number", n |-> n]
LitString(s) == [lit |-> "String", s |-> s]
LitNull      == [lit |-> "Null"]
LitRegex(s)  == [lit |-> "Regex", s |-> s]
LitList(xs)  == [lit |-> "List", items |-> xs]

Lit(l)    == [lof |-> "Lit", l |-> l]
Field(fr) == [lof |-> "Field", fr |-> fr]

CompareOp    == {"Eq", "Ne", "Lt", "Le", "Gt", "Ge"}
MembershipOp == {"In", "NotIn"}
LogicalOp    == {"And", "Or"}

ENot(e)              == [kind |-> "Not", e |-> e]
ELogical(op, l, r)   == [kind |-> "Logical", op |-> op, lhs |-> l, rhs |-> r]
ECompare(f, op, v)   == [kind |-> "Compare", field |-> f, op |-> op, value |-> v]
EMembership(f, op, l) == [kind |-> "Membership", field |-> f, op |-> op, list |-> l]
EContains(f, v)      == [kind |-> "Contains", field |-> f, op |-> "Contains", value |-> v]
ERegexMatch(f, p)    == [kind |-> "RegexMatch", field |-> f, pattern |-> p]
ECall(name, args)    == [kind |-> "Call", name |-> name, args |-> args]
ELiteral(l)          == [kind |-> "Literal", l |-> l]
EField(fr)           == [kind |-> "Field", fr |-> fr]

\* Dependencies::default()
Dependencies_default == [fields |-> {}, functions |-> {}]

add_field(d, fr) == [d EXCEPT !.fields = @ \cup {as_dotted(fr)}]

RECURSIVE add_lit_or_field(_, _)
RECURSIVE add_items(_, _)
add_items(d, items) ==
    IF items = <<>> THEN d
    ELSE add_items(add_lit_or_field(d, Head(items)), Tail(items))

\* add_lit_or_field that records no field operand.
add_lit_or_field_skip_fields(d, v) ==
    IF v.lof = "Field" THEN d
    ELSE IF v.l.lit = "List" THEN add_items(d, v.l.items)
    ELSE d

add_lit_or_field(d, v) ==
    IF v.lof = "Field" THEN add_field(d, v.fr)
    ELSE IF v.l.lit = "List" THEN add_items(d, v.l.items)
    ELSE d

RECURSIVE walk(_, _)
RECURSIVE walk_args(_, _)
\* walk_args that records nothing of a call's arguments.
walk_args_skip(args, d) == d

walk_args(args, d) ==
    IF args = <<>> THEN d
    ELSE walk_args(Tail(args), walk(Head(args), d))

walk(e, d) ==
    CASE e.kind = "Not"        -> walk(e.e, d)
      [] e.kind = "Logical"    -> walk(e.rhs, walk(e.lhs, d))
      [] e.kind = "Compare"    -> add_lit_or_field(add_field(d, e.field), e.value)
      [] e.kind = "Membership" -> add_lit_or_field(add_field(d, e.field), e.list)
      [] e.kind = "Contains"   -> add_lit_or_field(add_field(d, e.field), e.value)
      [] e.kind = "RegexMatch" -> add_field(d, e.field)
      [] e.kind = "Call"       ->
            walk_args(e.args, [d EXCEPT !.functions = @ \cup {e.name}])
      [] e.kind = "Literal"    -> d
      [] e.kind = "Field"      -> add_field(d, e.fr)

extract_dependencies(e) == walk(e, Dependencies_default)

(***************************************************************************)
(* Evaluator (tiimu-expr-eval): values, results, functions, registry.      *)
(***************************************************************************)
VBool(b)   == [v |-> "Bool", b |-> b]
VNumber(n) == [v |-> "Number", n |-> n]
VString(s) == [v |-> "String", s |-> s]
VNull      == [v |-> "Null"]
VSet(xs)   == [v |-> "Set", items |-> xs]

\* Result<Value, EvalError> and Result<bool, EvalError>
Ok(v)           == [tag |-> "Ok", val |-> v]
OkBool(b)       == [tag |-> "Ok", b |-> b]
MissingField(p) == [tag |-> "Err", err |-> "MissingField", path |-> p]
TypeErr(m)      == [tag |-> "Err", err |-> "Type", msg |-> m]
RegexErr(m)     == [tag |-> "Err", err |-> "Regex", msg |-> m]

IsErr(r) == r.tag = "Err"

\* What an evaluation step yields: its result and the context lookups,
\* registry lookups and function invocations it performed, in order.
Step(r, t) == [res |-> r, trace |-> t]

EvGet(k)      == [ev |-> "ctx.get", key |-> k]
EvHas(k)      == [ev |-> "ctx.contains_key", key |-> k]
EvFnGet(n)    == [ev |-> "fns.get", name |-> n]
EvCall(f, av) == [ev |-> "call", f |-> f, args |-> av]

\* Regex::new on the patterns of the model: literal characters with an
\* optional leading ^ compile, an unclosed group does not.
Regex_new(pattern) ==
    IF \E i \in 1..Len(pattern) : pattern[i] = "("
    THEN [tag |-> "Err", msg |-> "unclosed group"]
    ELSE [tag |-> "Ok", re |-> pattern]

\* Regex::is_match for the compiled patterns of the model.
is_match(re, s) ==
    IF re # <<>> /\ Head(re) = "^" THEN str_starts_with(s, Tail(re))
    ELSE str_contains(s, re)

\* Function implementations: the builtin, the example's custom function and
\* two caller-supplied ones (a function that fails when called, and a
\* function registered under the reserved name "exists").
LenFn        == "LenFn"
StartsWithFn == "StartsWithFn"
FailFn       == "FailFn"
UserExistsFn == "UserExistsFn"

Functions == {LenFn, StartsWithFn, FailFn, UserExistsFn}

\* A tenant's own function registered under the builtin's name "len".
TenantLenFn == "TenantLenFn"

AllFunctions == Functions \cup {TenantLenFn}

Function_name(f) ==
    CASE f = LenFn        -> "len"
      [] f = StartsWithFn -> "starts_with"
      [] f = FailFn       -> "f"
      [] f = UserExistsFn -> "exists"
      [] f = TenantLenFn  -> "len"

\* FunctionSignature { params, ret } over ValueTy
Function_signature(f) ==
    CASE f = LenFn        -> [params |-> <<"Any">>, ret |-> "Number"]
      [] f = StartsWithFn -> [params |-> <<"String", "String">>, ret |-> "Bool"]
      [] f = FailFn       -> [params |-> <<>>, ret |-> "Bool"]
      [] f = UserExistsFn -> [params |-> <<"Any">>, ret |-> "Bool"]
      [] f = TenantLenFn  -> [params |-> <<"Any">>, ret |-> "Number"]

LenFn_call(args) ==
    IF Len(args) # 1 THEN TypeErr("len expects 1 arg")
    ELSE IF args[1].v = "String" THEN Ok(VNumber(Len(args[1].s)))
    ELSE IF args[1].v = "Set" THEN Ok(VNumber(Len(args[1].items)))
    ELSE TypeErr("len expects string or set")

StartsWithFn_call(args) ==
    IF Len(args) # 2 THEN TypeErr("starts_with expects 2 args")
    ELSE IF args[1].v = "String" /\ args[2].v = "String"
         THEN Ok(VBool(str_starts_with(args[1].s, args[2].s)))
    ELSE TypeErr("starts_with expects (string,string)")

Function_call(f, args, c) ==
    CASE f = LenFn        -> LenFn_call(args)
      [] f = StartsWithFn -> StartsWithFn_call(args)
      [] f = FailFn       -> TypeErr("f failed")
      [] f = UserExistsFn -> TypeErr("user exists called")
      [] f = TenantLenFn  ->
            IF Len(args) = 1 /\ args[1].v = "Null" THEN Ok(VNumber(0))
            ELSE LenFn_call(args)

\* FunctionRegistry: HashMap<String, Arc<dyn Function>>
FunctionRegistry_new == [n \in {} |-> LenFn]

\* A registry that keeps the first function registered under a name.
register_keep_first(r, f) ==
    [n \in DOMAIN r \cup {Function_name(f)} |->
        IF n \in DOMAIN r THEN r[n] ELSE f]

register(r, f) ==
    [n \in DOMAIN r \cup {Function_name(f)} |->
        IF n = Function_name(f) THEN f ELSE r[n]]

with_builtins == register(FunctionRegistry_new, LenFn)

FunctionRegistry_get(r, name) ==
    IF name \in DOMAIN r THEN [tag |-> "Some", f |-> r[name]]
    ELSE [tag |-> "None"]

\* EvalContext::get
EvalContext_get(c, field) ==
    IF as_dotted(field) \in DOMAIN c
    THEN [tag |-> "Some", val |-> c[as_dotted(field)]]
    ELSE [tag |-> "None"]

\* ctx.get(field).ok_or_else(|| MissingField(field.as_dotted()))?.clone()
lookup(c, field) ==
    LET o == EvalContext_get(c, field) IN
    Step(IF o.tag = "Some" THEN Ok(o.val) ELSE MissingField(as_dotted(field)),
         <<EvGet(as_dotted(field))>>)

RECURSIVE literal_to_value(_)
literal_item(x) ==
    IF x.lof = "Lit" THEN literal_to_value(x.l)
    ELSE VString(as_dotted(x.fr))

literal_to_value(l) ==
    CASE l.lit = "Bool"   -> VBool(l.b)
      [] l.lit = "Number" -> VNumber(l.n)
      [] l.lit = "String" -> VString(l.s)
      [] l.lit = "Null"   -> VNull
      [] l.lit = "Regex"  -> VString(l.s)
      [] l.lit = "List"   ->
            VSet([i \in 1..Len(l.items) |-> literal_item(l.items[i])])

eval_lit_or_field(v, c, r) ==
    IF v.lof = "Lit" THEN Step(Ok(literal_to_value(v.l)), <<>>)
    ELSE lookup(c, v.fr)

as_bool(v) ==
    IF v.v = "Bool" THEN OkBool(v.b) ELSE TypeErr("expected bool")

as_string(v) ==
    IF v.v = "String" THEN [tag |-> "Ok", s |-> v.s] ELSE TypeErr("expected string")

compare(op, a, b) ==
    IF a.v = "Number" /\ b.v = "Number" THEN
        OkBool(CASE op = "Eq" -> a.n = b.n  [] op = "Ne" -> a.n # b.n
                 [] op = "Lt" -> a.n < b.n  [] op = "Le" -> a.n <= b.n
                 [] op = "Gt" -> a.n > b.n  [] op = "Ge" -> a.n >= b.n)
    ELSE IF a.v = "String" /\ b.v = "String" THEN
        OkBool(CASE op = "Eq" -> a.s = b.s  [] op = "Ne" -> a.s # b.s
                 [] op = "Lt" -> str_lt(a.s, b.s)
                 [] op = "Le" -> ~ str_lt(b.s, a.s)
                 [] op = "Gt" -> str_lt(b.s, a.s)
                 [] op = "Ge" -> ~ str_lt(a.s, b.s))
    ELSE IF a.v = "Bool" /\ b.v = "Bool" THEN
        CASE op = "Eq" -> OkBool(a.b = b.b)
          [] op = "Ne" -> OkBool(a.b # b.b)
          [] OTHER     -> TypeErr("ordering not supported for bool")
    ELSE TypeErr("incompatible types for compare")

\* membership that ignores the operator.
membership_ignores_op(op, item, target) ==
    IF target.v # "Set" THEN TypeErr("membership target must be set")
    ELSE OkBool(\E i \in 1..Len(target.items) : target.items[i] = item)

membership(op, item, target) ==
    IF target.v # "Set" THEN TypeErr("membership target must be set")
    ELSE LET contained == \E i \in 1..Len(target.items) : target.items[i] = item
         IN  OkBool(IF op = "In" THEN contained ELSE ~ contained)

contains(container, needle) ==
    IF container.v = "String" /\ needle.v = "String"
    THEN OkBool(str_contains(container.s, needle.s))
    ELSE IF container.v = "Set"
    THEN OkBool(\E i \in 1..Len(container.items) : container.items[i] = needle)
    ELSE TypeErr("contains expects string/string or set/T")

\* Ok(Value::Bool(x?)) for x : Result<bool, EvalError>
ok_bool_value(r) == IF IsErr(r) THEN r ELSE Ok(VBool(r.b))

(***************************************************************************)
(* eval_value: one operator per match arm.                                 *)
(***************************************************************************)
RECURSIVE eval_value(_, _, _)

\* Expr::Not(e)
eval_not(e, c, r) ==
    LET x == eval_value(e.e, c, r) IN
    IF IsErr(x.res) THEN x
    ELSE LET b == as_bool(x.res.val) IN
         Step(IF IsErr(b) THEN b ELSE Ok(VBool(~ b.b)), x.trace)

\* eval_logical with both operands evaluated before the operator is applied.
eval_logical_eager(e, c, r) ==
    LET l  == eval_value(e.lhs, c, r)
        lb == as_bool(l.res.val)
        rr == eval_value(e.rhs, c, r)
        rb == as_bool(rr.res.val)
    IN  IF IsErr(l.res) THEN l
        ELSE IF IsErr(lb) THEN Step(lb, l.trace)
        ELSE IF IsErr(rr.res) THEN Step(rr.res, l.trace \o rr.trace)
        ELSE IF IsErr(rb) THEN Step(rb, l.trace \o rr.trace)
        ELSE Step(Ok(VBool(IF e.op = "And" THEN lb.b /\ rb.b ELSE lb.b \/ rb.b)),
                  l.trace \o rr.trace)

\* Expr::Logical { op, lhs, rhs }
eval_logical(e, c, r) ==
    LET l  == eval_value(e.lhs, c, r)
        lb == as_bool(l.res.val)
        rr == eval_value(e.rhs, c, r)
        rb == as_bool(rr.res.val)
        \* the value on which the operator returns without touching rhs
        short == (e.op = "Or")
    IN  IF IsErr(l.res) THEN l
        ELSE IF IsErr(lb) THEN Step(lb, l.trace)
        ELSE IF lb.b = short THEN Step(Ok(VBool(short)), l.trace)
        ELSE IF IsErr(rr.res) THEN Step(rr.res, l.trace \o rr.trace)
        ELSE IF IsErr(rb) THEN Step(rb, l.trace \o rr.trace)
        ELSE Step(Ok(VBool(IF e.op = "And" THEN lb.b /\ rb.b ELSE lb.b \/ rb.b)),
                  l.trace \o rr.trace)

\* eval_compare with the operand resolved before the field.
eval_compare_operand_first(e, c, r) ==
    LET fv == lookup(c, e.field)
        vv == eval_lit_or_field(e.value, c, r)
    IN  IF IsErr(vv.res) THEN vv
        ELSE IF IsErr(fv.res) THEN Step(fv.res, vv.trace \o fv.trace)
        ELSE Step(ok_bool_value(compare(e.op, fv.res.val, vv.res.val)),
                  vv.trace \o fv.trace)

\* Expr::Compare { field, op, value }
eval_compare(e, c, r) ==
    LET fv == lookup(c, e.field)
        vv == eval_lit_or_field(e.value, c, r)
    IN  IF IsErr(fv.res) THEN fv
        ELSE IF IsErr(vv.res) THEN Step(vv.res, fv.trace \o vv.trace)
        ELSE Step(ok_bool_value(compare(e.op, fv.res.val, vv.res.val)),
                  fv.trace \o vv.trace)

\* Expr::Membership { field, op, list }
eval_membership(e, c, r) ==
    LET fv     == lookup(c, e.field)
        target == eval_lit_or_field(e.list, c, r)
    IN  IF IsErr(fv.res) THEN fv
        ELSE IF IsErr(target.res) THEN Step(target.res, fv.trace \o target.trace)
        ELSE Step(ok_bool_value(membership(e.op, fv.res.val, target.res.val)),
                  fv.trace \o target.trace)

\* Expr::Contains { field, value, .. }
eval_contains(e, c, r) ==
    LET fv == lookup(c, e.field)
        vv == eval_lit_or_field(e.value, c, r)
    IN  IF IsErr(fv.res) THEN fv
        ELSE IF IsErr(vv.res) THEN Step(vv.res, fv.trace \o vv.trace)
        ELSE Step(ok_bool_value(contains(fv.res.val, vv.res.val)),
                  fv.trace \o vv.trace)

\* Expr::RegexMatch { field, pattern }
eval_regex_match(e, c, r) ==
    LET f  == lookup(c, e.field)
        s  == as_string(f.res.val)
        re == Regex_new(e.pattern)
    IN  IF IsErr(f.res) THEN f
        ELSE IF IsErr(s) THEN Step(s, f.trace)
        ELSE IF IsErr(re) THEN Step(RegexErr(re.msg), f.trace)
        ELSE Step(Ok(VBool(is_match(re.re, s.s))), f.trace)

RECURSIVE eval_args(_, _, _)
\* for a in args { argv.push(eval_value(a, ctx, fns)?); }
eval_args(args, c, r) ==
    IF args = <<>> THEN [res |-> [tag |-> "Ok", argv |-> <<>>], trace |-> <<>>]
    ELSE LET a == eval_value(Head(args), c, r) IN
         IF IsErr(a.res) THEN a
         ELSE LET rest == eval_args(Tail(args), c, r) IN
              IF IsErr(rest.res) THEN Step(rest.res, a.trace \o rest.trace)
              ELSE [res |-> [tag |-> "Ok", argv |-> <<a.res.val>> \o rest.res.argv],
                    trace |-> a.trace \o rest.trace]

\* The special form exists(field_ref) applies to this call.
is_exists_form(e) ==
    e.name = "exists" /\ Len(e.args) = 1 /\ e.args[1].kind = "Field"

\* eval_call with the special form applied only when the registry has no
\* function of that name.
eval_call_registry_first(e, c, r) ==
    IF is_exists_form(e) /\ e.name \notin DOMAIN r
    THEN Step(Ok(VBool(as_dotted(e.args[1].fr) \in DOMAIN c)),
              <<EvHas(as_dotted(e.args[1].fr))>>)
    ELSE LET a == eval_args(e.args, c, r)
             f == FunctionRegistry_get(r, e.name)
         IN  IF IsErr(a.res) THEN a
             ELSE IF f.tag = "None"
             THEN Step([tag |-> "Err", err |-> "Type",
                        msg |-> "unknown function {}", name |-> e.name],
                       a.trace \o <<EvFnGet(e.name)>>)
             ELSE Step(Function_call(f.f, a.res.argv, c),
                       a.trace \o <<EvFnGet(e.name), EvCall(f.f, a.res.argv)>>)

\* eval_call looking the function up before it evaluates the arguments.
eval_call_lookup_first(e, c, r) ==
    IF is_exists_form(e)
    THEN Step(Ok(VBool(as_dotted(e.args[1].fr) \in DOMAIN c)),
              <<EvHas(as_dotted(e.args[1].fr))>>)
    ELSE LET f == FunctionRegistry_get(r, e.name)
             a == eval_args(e.args, c, r)
         IN  IF f.tag = "None"
             THEN Step([tag |-> "Err", err |-> "Type",
                        msg |-> "unknown function {}", name |-> e.name],
                       <<EvFnGet(e.name)>>)
             ELSE IF IsErr(a.res) THEN Step(a.res, <<EvFnGet(e.name)>> \o a.trace)
             ELSE Step(Function_call(f.f, a.res.argv, c),
                       <<EvFnGet(e.name)>> \o a.trace \o <<EvCall(f.f, a.res.argv)>>)

\* Expr::Call { name, args }
eval_call(e, c, r) ==
    IF is_exists_form(e)
    THEN Step(Ok(VBool(as_dotted(e.args[1].fr) \in DOMAIN c)),
              <<EvHas(as_dotted(e.args[1].fr))>>)
    ELSE LET a == eval_args(e.args, c, r)
             f == FunctionRegistry_get(r, e.name)
         IN  IF IsErr(a.res) THEN a
             ELSE IF f.tag = "None"
             THEN Step([tag |-> "Err", err |-> "Type",
                        msg |-> "unknown function {}", name |-> e.name],
                       a.trace \o <<EvFnGet(e.name)>>)
             ELSE Step(Function_call(f.f, a.res.argv, c),
                       a.trace \o <<EvFnGet(e.name), EvCall(f.f, a.res.argv)>>)

eval_value(e, c, r) ==
    CASE e.kind = "Not"        -> eval_not(e, c, r)
      [] e.kind = "Logical"    -> eval_logical(e, c, r)
      [] e.kind = "Compare"    -> eval_compare(e, c, r)
      [] e.kind = "Membership" -> eval_membership(e, c, r)
      [] e.kind = "Contains"   -> eval_contains(e, c, r)
      [] e.kind = "RegexMatch" -> eval_regex_match(e, c, r)
      [] e.kind = "Call"       -> eval_call(e, c, r)
      [] e.kind = "Literal"    -> Step(Ok(literal_to_value(e.l)), <<>>)
      [] e.kind = "Field"      -> lookup(c, e.fr)

\* The source calls eval_value(expr, ctx) here, without the registry the
\* callee requires; the registry given by the caller is what is passed.
eval_with_registry(e, c, r) ==
    LET x == eval_value(e, c, r) IN
    IF IsErr(x.res) THEN x
    ELSE IF x.res.val.v = "Bool" THEN Step(OkBool(x.res.val.b), x.trace)
    ELSE Step(TypeErr("top-level must be bool"), x.trace)

\* eval: the default builtin registry
eval(e, c) == eval_with_registry(e, c, with_builtins)

(***************************************************************************)
(* Type checker (tiimu-expr-typecheck).                                    *)
(***************************************************************************)
TyBool    == [ty |-> "Bool"]
TyNumber  == [ty |-> "Number"]
TyString  == [ty |-> "String"]
TyNull    == [ty |-> "Null"]
TyAny     == [ty |-> "Any"]
TySet(t)  == [ty |-> "Set", inner |-> t]

\* Result<Ty, TypeError>
OkTy(t)            == [tag |-> "Ok", ty |-> t]
UnknownField(p)    == [tag |-> "Err", err |-> "UnknownField", path |-> p]
TypeMismatch(m)    == [tag |-> "Err", err |-> "TypeMismatch", msg |-> m]
UnknownFunction(n) == [tag |-> "Err", err |-> "UnknownFunction", name |-> n]
InvalidRegex(m)    == [tag |-> "Err", err |-> "InvalidRegex", msg |-> m]
NotBoolean         == [tag |-> "Err", err |-> "NotBoolean"]

\* Dictionary::field_type(field).ok_or_else(|| UnknownField(field.as_dotted()))
field_type(d, field) ==
    IF field \in DOMAIN d THEN OkTy(d[field]) ELSE UnknownField(as_dotted(field))

\* The type of a literal (the match of infer and of infer_value).
literal_type(l) ==
    CASE l.lit = "Bool"   -> TyBool
      [] l.lit = "Number" -> TyNumber
      [] l.lit = "String" -> TyString
      [] l.lit = "Null"   -> TyNull
      [] l.lit = "Regex"  -> TyString
      [] l.lit = "List"   -> TyAny

infer_value(v, d) ==
    IF v.lof = "Lit" THEN OkTy(literal_type(v.l)) ELSE field_type(d, v.fr)

ensure_bool(t, msg) ==
    IF t # TyBool THEN TypeMismatch(msg) ELSE [tag |-> "Ok"]

RECURSIVE infer(_, _, _)

\* Expr::Not(e)
infer_not(e, d, sg) ==
    LET t == infer(e.e, d, sg) IN
    IF IsErr(t) THEN t
    ELSE IF IsErr(ensure_bool(t.ty, "! expects bool"))
         THEN ensure_bool(t.ty, "! expects bool")
    ELSE OkTy(TyBool)

\* Expr::Logical { lhs, rhs, .. }
infer_logical(e, d, sg) ==
    LET l == infer(e.lhs, d, sg)
        r == infer(e.rhs, d, sg)
    IN  IF IsErr(l) THEN l
        ELSE IF IsErr(ensure_bool(l.ty, "lhs must be bool"))
             THEN ensure_bool(l.ty, "lhs must be bool")
        ELSE IF IsErr(r) THEN r
        ELSE IF IsErr(ensure_bool(r.ty, "rhs must be bool"))
             THEN ensure_bool(r.ty, "rhs must be bool")
        ELSE OkTy(TyBool)

\* Expr::Compare { field, op, value }
infer_compare(e, d, sg) ==
    LET ft == field_type(d, e.field)
        vt == infer_value(e.value, d)
    IN  IF IsErr(ft) THEN ft
        ELSE IF IsErr(vt) THEN vt
        ELSE IF \/ ft.ty = TyNumber /\ vt.ty = TyNumber
                \/ ft.ty = TyString /\ vt.ty = TyString
                \/ ft.ty = TyBool /\ vt.ty = TyBool
             THEN OkTy(TyBool)
        ELSE IF vt.ty = TyNull \/ ft.ty = TyNull
             THEN IF e.op \in {"Eq", "Ne"} THEN OkTy(TyBool)
                  ELSE TypeMismatch("null only with == or !=")
        ELSE [tag |-> "Err", err |-> "TypeMismatch",
              msg |-> "cannot compare {:?} with {:?}", ft |-> ft.ty, vt |-> vt.ty]

\* Expr::Membership { field, op, list }
\* infer_membership accepting a field operand declared as any set.
infer_membership_any_set(e, d, sg) ==
    LET ft == field_type(d, e.field) IN
    IF IsErr(ft) THEN ft
    ELSE IF e.list.lof = "Lit" /\ e.list.l.lit = "List"
            /\ ft.ty.ty \in {"String", "Number", "Set"}
         THEN OkTy(TyBool)
    ELSE IF ft.ty = TyString /\ e.list.lof = "Field"
         THEN LET lt == field_type(d, e.list.fr) IN
              IF IsErr(lt) THEN lt
              ELSE IF lt.ty.ty = "Set" THEN OkTy(TyBool)
              ELSE TypeMismatch("membership expects set<string>")
    ELSE TypeMismatch("invalid membership usage")

infer_membership(e, d, sg) ==
    LET ft == field_type(d, e.field) IN
    IF IsErr(ft) THEN ft
    ELSE IF e.list.lof = "Lit" /\ e.list.l.lit = "List"
            /\ ft.ty.ty \in {"String", "Number", "Set"}
         THEN OkTy(TyBool)
    ELSE IF ft.ty = TyString /\ e.list.lof = "Field"
         THEN LET lt == field_type(d, e.list.fr) IN
              IF IsErr(lt) THEN lt
              ELSE IF lt.ty = TySet(TyString) THEN OkTy(TyBool)
              ELSE TypeMismatch("membership expects set<string>")
    ELSE TypeMismatch("invalid membership usage")

\* Expr::Contains { field, value, .. }
infer_contains(e, d, sg) ==
    LET ft == field_type(d, e.field)
        vt == infer_value(e.value, d)
    IN  IF IsErr(ft) THEN ft
        ELSE IF IsErr(vt) THEN vt
        ELSE IF ft.ty = TyString /\ vt.ty = TyString THEN OkTy(TyBool)
        ELSE IF ft.ty.ty = "Set" /\ ft.ty.inner = vt.ty THEN OkTy(TyBool)
        ELSE TypeMismatch("contains requires string/string or set<T>/T")

\* infer for RegexMatch without compiling the pattern.
infer_regex_match_unchecked(e, d, sg) ==
    LET ft == field_type(d, e.field) IN
    IF IsErr(ft) THEN ft
    ELSE IF ft.ty # TyString THEN TypeMismatch("regex needs string field")
    ELSE OkTy(TyBool)

\* Expr::RegexMatch { field, pattern }
infer_regex_match(e, d, sg) ==
    LET ft == field_type(d, e.field) IN
    IF IsErr(ft) THEN ft
    ELSE IF ft.ty # TyString THEN TypeMismatch("regex needs string field")
    ELSE IF IsErr(Regex_new(e.pattern)) THEN InvalidRegex(Regex_new(e.pattern).msg)
    ELSE OkTy(TyBool)

RECURSIVE infer_args(_, _, _, _)
\* for (a, p) in args.iter().zip(params.iter()) { ... }
infer_args(args, params, d, sg) ==
    IF args = <<>> \/ params = <<>> THEN [tag |-> "Ok"]
    ELSE LET at == infer(Head(args), d, sg) IN
         IF IsErr(at) THEN at
         ELSE IF Head(params) # TyAny /\ at.ty # Head(params)
              THEN TypeMismatch("arg type mismatch")
         ELSE infer_args(Tail(args), Tail(params), d, sg)

\* Expr::Call { name, args }; sg maps a name to <<params, ret>>
infer_call(e, d, sg) ==
    IF e.name \notin DOMAIN sg THEN UnknownFunction(e.name)
    ELSE LET params == sg[e.name][1]
             ret    == sg[e.name][2]
         IN  IF Len(params) # Len(e.args) THEN TypeMismatch("arg count mismatch")
             ELSE IF IsErr(infer_args(e.args, params, d, sg))
                  THEN infer_args(e.args, params, d, sg)
             ELSE OkTy(ret)

infer(e, d, sg) ==
    CASE e.kind = "Not"        -> infer_not(e, d, sg)
      [] e.kind = "Logical"    -> infer_logical(e, d, sg)
      [] e.kind = "Compare"    -> infer_compare(e, d, sg)
      [] e.kind = "Membership" -> infer_membership(e, d, sg)
      [] e.kind = "Contains"   -> infer_contains(e, d, sg)
      [] e.kind = "RegexMatch" -> infer_regex_match(e, d, sg)
      [] e.kind = "Call"       -> infer_call(e, d, sg)
      [] e.kind = "Literal"    -> OkTy(literal_type(e.l))
      [] e.kind = "Field"      -> field_type(d, e.fr)

\* typecheck without the Bool requirement on the root.
typecheck_any_root(e, d, sg) == infer(e, d, sg)

typecheck(e, d, sg) ==
    LET ty == infer(e, d, sg) IN
    IF IsErr(ty) THEN ty
    ELSE IF ty.ty # TyBool THEN NotBoolean
    ELSE ty

(***************************************************************************)
(* Parser (tiimu-dsl).  A Pair is a node of the parse tree the grammar     *)
(* yields: its rule, the text it spans and its inner pairs.                *)
(***************************************************************************)
Pair(rule, text, inner) == [rule |-> rule, text |-> text, inner |-> inner]

\* Result<_, DslError> and the abort of an unwrap() on None
DslParseErr(m) == [tag |-> "Err", err |-> "Parse", msg |-> m]
Panic          == [tag |-> "Panic"]

RECURSIVE split(_, _)
\* str::split(c)
split(s, c) ==
    IF \A i \in 1..Len(s) : s[i] # c THEN <<s>>
    ELSE LET i == CHOOSE j \in 1..Len(s) :
                      s[j] = c /\ \A k \in 1..(j - 1) : s[k] # c
         IN  <<SubSeq(s, 1, i - 1)>> \o split(SubSeq(s, i + 1, Len(s)), c)

RECURSIVE str_replace(_, _, _)
\* str::replace(from, to)
str_replace(s, from, to) ==
    IF Len(s) < Len(from) THEN s
    ELSE IF SubSeq(s, 1, Len(from)) = from
         THEN to \o str_replace(SubSeq(s, Len(from) + 1, Len(s)), from, to)
    ELSE <<Head(s)>> \o str_replace(Tail(s), from, to)

Digits == <<"0", "1", "2", "3", "4", "5", "6", "7", "8", "9">>

IsDigit(c) == \E i \in 1..Len(Digits) : Digits[i] = c

DigitValue(c) == (CHOOSE i \in 1..Len(Digits) : Digits[i] = c) - 1

RECURSIVE digits_value(_)
digits_value(t) ==
    IF t = <<>> THEN 0
    ELSE 10 * digits_value(SubSeq(t, 1, Len(t) - 1)) + DigitValue(t[Len(t)])

\* str::parse::<f64>() on unsigned integer text
parse_f64(t) ==
    IF t # <<>> /\ \A i \in 1..Len(t) : IsDigit(t[i])
    THEN [tag |-> "Ok", n |-> digits_value(t)]
    ELSE [tag |-> "Err"]

parse_field_ref(s) == FieldRef_new(split(s, "."))

build_literal(pair) ==
    CASE pair.rule = "boolean" ->
            [tag |-> "Ok", l |-> LitBool(pair.text = <<"t", "r", "u", "e">>)]
      [] pair.rule = "number" ->
            IF IsErr(parse_f64(pair.text)) THEN DslParseErr("invalid number")
            ELSE [tag |-> "Ok", l |-> LitNumber(parse_f64(pair.text).n)]
      [] pair.rule = "string" ->
            LET raw   == pair.text
                inner == SubSeq(raw, 2, Len(raw) - 1)
            IN  [tag |-> "Ok",
                 l |-> LitString(str_replace(str_replace(inner, <<"\\", "\"">>, <<"\"">>),
                                             <<"\\", "\\">>, <<"\\">>))]
      [] pair.rule = "null" -> [tag |-> "Ok", l |-> LitNull]
      [] OTHER -> [tag |-> "Ok", l |-> LitNull]

RECURSIVE build_value_or_field(_)
build_value_or_field(pair) ==
    CASE pair.rule = "value" ->
            IF pair.inner = <<>> THEN Panic
            ELSE build_value_or_field(pair.inner[1])
      [] pair.rule = "field_ref" ->
            [tag |-> "Ok", v |-> Field(parse_field_ref(pair.text))]
      [] pair.rule \in {"string", "number", "boolean", "null"} ->
            IF build_literal(pair).tag = "Ok"
            THEN [tag |-> "Ok", v |-> Lit(build_literal(pair).l)]
            ELSE build_literal(pair)
      [] OTHER -> [tag |-> "Ok", v |-> Lit(LitNull)]

\* rest.iter().find(|p| p.as_rule() == rule)
find_rule(rest, rule) ==
    IF \E i \in 1..Len(rest) : rest[i].rule = rule
    THEN [tag |-> "Some",
          pair |-> rest[CHOOSE i \in 1..Len(rest) :
                          rest[i].rule = rule
                          /\ \A k \in 1..(i - 1) : rest[k].rule # rule]]
    ELSE [tag |-> "None"]

RECURSIVE build_list_items(_)
\* for p in target.into_inner() { if p is a value { items.push(...?) } }
build_list_items(pairs) ==
    IF pairs = <<>> THEN [tag |-> "Ok", items |-> <<>>]
    ELSE IF Head(pairs).rule # "value" THEN build_list_items(Tail(pairs))
    ELSE LET x == build_value_or_field(Head(pairs)) IN
         IF x.tag # "Ok" THEN x
         ELSE LET rest == build_list_items(Tail(pairs)) IN
              IF rest.tag # "Ok" THEN rest
              ELSE [tag |-> "Ok", items |-> <<x.v>> \o rest.items]

sContains == <<" ", "c", "o", "n", "t", "a", "i", "n", "s", " ">>
sIn       == <<" ", "i", "n", " ">>
sNotIn    == <<" ", "n", "o", "t", " ", "i", "n", " ">>
sTilde    == <<"~">>

comparator_op(t) ==
    CASE t = <<"=", "=">> -> "Eq"
      [] t = <<"!", "=">> -> "Ne"
      [] t = <<"<">>      -> "Lt"
      [] t = <<"<", "=">> -> "Le"
      [] t = <<">">>      -> "Gt"
      [] t = <<">", "=">> -> "Ge"
      [] OTHER            -> "Eq"

\* The branch of build_predicate for ` in ` / ` not in `.
build_membership(text, field, rest) ==
    LET op     == IF str_contains(text, sNotIn) THEN "NotIn" ELSE "In"
        target == rest[Len(rest)]
    IN  IF rest = <<>> THEN Panic
        ELSE IF target.rule = "list"
        THEN LET items == build_list_items(target.inner) IN
             IF items.tag # "Ok" THEN items
             ELSE [tag |-> "Ok",
                   expr |-> EMembership(field, op, Lit(LitList(items.items)))]
        ELSE IF target.rule = "field_ref"
        THEN [tag |-> "Ok",
              expr |-> EMembership(field, op, Field(parse_field_ref(target.text)))]
        ELSE [tag |-> "Ok", expr |-> EMembership(field, op, Lit(LitNull))]

build_predicate(pair) ==
    LET text  == pair.text
        field == parse_field_ref(pair.inner[1].text)
        rest  == SubSeq(pair.inner, 2, Len(pair.inner))
        last  == build_value_or_field(rest[Len(rest)])
    IN  IF pair.inner = <<>> THEN Panic
        ELSE IF str_contains(text, sContains)
        THEN IF rest = <<>> THEN Panic
             ELSE IF last.tag # "Ok" THEN last
             ELSE [tag |-> "Ok", expr |-> EContains(field, last.v)]
        ELSE IF str_contains(text, sTilde)
        THEN LET regex_pair == find_rule(rest, "regex") IN
             IF regex_pair.tag = "None" THEN Panic
             ELSE LET raw == regex_pair.pair.text IN
                  [tag |-> "Ok",
                   expr |-> ERegexMatch(field, SubSeq(raw, 2, Len(raw) - 1))]
        ELSE IF str_contains(text, sIn) \/ str_contains(text, sNotIn)
        THEN build_membership(text, field, rest)
        ELSE LET comp_pair == find_rule(rest, "comparator") IN
             IF comp_pair.tag = "None" THEN Panic
             ELSE IF last.tag # "Ok" THEN last
             ELSE [tag |-> "Ok",
                   expr |-> ECompare(field, comparator_op(comp_pair.pair.text), last.v)]

\* ValueTy of an evaluator signature as the checker's Ty
ty_of(vt) ==
    CASE vt = "Bool"   -> TyBool
      [] vt = "Number" -> TyNumber
      [] vt = "String" -> TyString
      [] vt = "Null"   -> TyNull
      [] vt = "Set"    -> TySet(TyAny)
      [] vt = "Any"    -> TyAny

\* FunctionRegistry::function_signature of the checker, answered from the
\* signature() of the functions registered with the evaluator.
function_signatures(r) ==
    [n \in DOMAIN r |->
        LET sig == Function_signature(r[n]) IN
        << [i \in 1..Len(sig.params) |-> ty_of(sig.params[i])], ty_of(sig.ret) >>]

(***************************************************************************)
(* Inputs: expressions, dictionaries and contexts the operations are run   *)
(* on.                                                                     *)
(***************************************************************************)
frAB == FieldRef_new(<< <<"a">>, <<"b">> >>)
frCD == FieldRef_new(<< <<"c">>, <<"d">> >>)

sY     == <<"y">>
sZ     == <<"z">>
sCD    == <<"c", ".", "d">>
reGood == <<"^", "y">>
reBad  == <<"(">>

\* ["y", c.d], [1] and [[c.d]]
listYCD    == LitList(<<Lit(LitString(sY)), Field(frCD)>>)
listOne    == LitList(<<Lit(LitNumber(1))>>)
listNested == LitList(<<Lit(LitList(<<Field(frCD)>>))>>)

Operands ==
    { Lit(LitBool(TRUE)), Lit(LitNumber(1)), Lit(LitString(sY)), Lit(LitNull),
      Lit(LitRegex(reGood)), Lit(listYCD), Lit(listOne), Lit(listNested),
      Field(frCD) }

Predicates ==
    {ECompare(frAB, op, v) : op \in CompareOp, v \in Operands}
    \cup {EMembership(frAB, op, v) : op \in MembershipOp, v \in Operands}
    \cup {EContains(frAB, v) : v \in Operands}
    \cup {ERegexMatch(frAB, p) : p \in {reGood, reBad}}

Leaves ==
    { EField(frAB), EField(frCD),
      ELiteral(LitBool(TRUE)), ELiteral(LitBool(FALSE)), ELiteral(LitNumber(1)),
      ELiteral(LitList(<<Field(frCD)>>)) }

Calls ==
    { ECall("exists", <<EField(frAB)>>),
      ECall("exists", <<EField(frCD)>>),
      ECall("exists", <<ELiteral(LitBool(TRUE))>>),
      ECall("exists", <<>>),
      ECall("f", <<>>),
      ECall("g", <<>>),
      ECall("len", <<EField(frAB)>>),
      ECall("len", <<ELiteral(LitList(<<Field(frCD)>>))>>),
      ECall("starts_with", <<EField(frAB), ELiteral(LitString(sY))>>),
      ECall("starts_with", <<EField(frAB), EField(frCD)>>),
      ECall("g", <<EField(frCD), ECall("f", <<>>)>>) }

NotArgs ==
    { ELiteral(LitBool(TRUE)), EField(frAB), ELiteral(LitNumber(1)),
      ECompare(frAB, "Eq", Lit(LitNumber(1))),
      ERegexMatch(frAB, reBad), ECall("f", <<>>) }

Lhs ==
    { ELiteral(LitBool(TRUE)), ELiteral(LitBool(FALSE)), ELiteral(LitNumber(1)),
      EField(frAB),
      ECompare(frAB, "Eq", Lit(LitString(sY))),
      ECompare(frAB, "Lt", Lit(LitBool(TRUE))) }

Rhs ==
    { ELiteral(LitBool(TRUE)), EField(frCD),
      ECall("f", <<>>), ECall("g", <<>>),
      ECall("exists", <<EField(frCD)>>),
      ERegexMatch(frAB, reBad), ERegexMatch(frCD, reBad),
      ECompare(frCD, "Eq", Lit(LitNumber(1))),
      EMembership(frAB, "In", Lit(listYCD)) }

ExprPool ==
    Predicates \cup Leaves \cup Calls
    \cup {ENot(e) : e \in NotArgs}
    \cup {ELogical(op, l, r) : op \in LogicalOp, l \in Lhs, r \in Rhs}

None    == [tag |-> "None"]
Some(x) == [tag |-> "Some", val |-> x]

\* What is declared for a field and what the context holds for it.
FieldSetup(decl, stored) == [decl |-> decl, stored |-> stored]

SetupsAB ==
    { FieldSetup(None, None),
      FieldSetup(None, Some(VString(sY))),
      FieldSetup(Some(TyBool), Some(VBool(TRUE))),
      FieldSetup(Some(TyBool), Some(VBool(FALSE))),
      FieldSetup(Some(TyNumber), Some(VNumber(1))),
      FieldSetup(Some(TyNumber), Some(VNumber(2))),
      FieldSetup(Some(TyNumber), None),
      FieldSetup(Some(TyString), Some(VString(sY))),
      FieldSetup(Some(TyString), Some(VString(sZ))),
      FieldSetup(Some(TyString), Some(VString(sCD))),
      FieldSetup(Some(TyString), Some(VNumber(1))),
      FieldSetup(Some(TyNull), Some(VNull)),
      FieldSetup(Some(TySet(TyString)), Some(VSet(<<VString(sY)>>))),
      FieldSetup(Some(TySet(TyNumber)), Some(VSet(<<VNumber(1)>>))) }

SetupsCD ==
    { FieldSetup(None, None),
      FieldSetup(Some(TyString), None),
      FieldSetup(Some(TyString), Some(VString(sZ))),
      FieldSetup(Some(TyNumber), Some(VNumber(1))),
      FieldSetup(Some(TyBool), Some(VBool(TRUE))),
      FieldSetup(Some(TySet(TyString)), Some(VSet(<<VString(sY), VString(sZ)>>))),
      FieldSetup(Some(TySet(TyNumber)), Some(VSet(<<VNumber(1)>>))) }

\* The dictionary snapshot: declared fields and their types.
Dictionary(ab, cd) ==
    [f \in {x \in {frAB, frCD} : (IF x = frAB THEN ab ELSE cd).decl # None} |->
        (IF f = frAB THEN ab ELSE cd).decl.val]

\* EvalContext::new(values): dotted path -> value
EvalContext_new(ab, cd) ==
    [k \in {as_dotted(x) : x \in {y \in {frAB, frCD} :
                (IF y = frAB THEN ab ELSE cd).stored # None}} |->
        (IF k = as_dotted(frAB) THEN ab ELSE cd).stored.val]

(***************************************************************************)
(* The state machine: a registry is built, then the expression is type     *)
(* checked, indexed and evaluated.                                         *)
(***************************************************************************)
Init ==
    /\ expr \in ExprPool
    /\ \E ab \in SetupsAB, cd \in SetupsCD :
          /\ dict = Dictionary(ab, cd)
          /\ ctx = EvalContext_new(ab, cd)
    /\ fns = with_builtins
    /\ nreg = 0
    /\ pc = "setup"
    /\ tc = None
    /\ deps = None
    /\ result = None
    /\ trace = <<>>
    /\ source = None
    /\ parsed = None
    /\ regs = <<LenFn>>

\* FunctionRegistry::register; regs records the functions registered so far,
\* the builtin registered by with_builtins included.
Register(f) ==
    /\ pc \in {"setup", "registry"}
    /\ nreg < (IF pc = "setup" THEN MaxRegister ELSE MaxRegistrySeq)
    /\ fns' = register(fns, f)
    /\ nreg' = nreg + 1
    /\ regs' = Append(regs, f)
    /\ UNCHANGED <<expr, dict, ctx, pc, tc, deps, result, trace, source, parsed>>

\* typecheck(expr, dict, fns)
Typecheck ==
    /\ pc = "setup"
    /\ tc' = typecheck(expr, dict, function_signatures(fns))
    /\ pc' = "checked"
    /\ UNCHANGED <<expr, dict, ctx, fns, nreg, deps, result, trace>>
    /\ UNCHANGED <<source, parsed, regs>>

\* extract_dependencies(expr)
ExtractDeps ==
    /\ pc = "checked"
    /\ deps' = extract_dependencies(expr)
    /\ pc' = "indexed"
    /\ UNCHANGED <<expr, dict, ctx, fns, nreg, tc, result, trace>>
    /\ UNCHANGED <<source, parsed, regs>>

\* eval_with_registry(expr, ctx, fns)
Eval ==
    /\ pc = "indexed"
    /\ LET x == eval_with_registry(expr, ctx, fns) IN
          /\ result' = x.res
          /\ trace' = x.trace
    /\ pc' = "done"
    /\ UNCHANGED <<expr, dict, ctx, fns, nreg, tc, deps>>
    /\ UNCHANGED <<source, parsed, regs>>

Next ==
    \/ \E f \in Functions : Register(f)
    \/ Typecheck
    \/ ExtractDeps
    \/ Eval

Spec == Init /\ [][Next]_vars

(***************************************************************************)
(* Parsing a predicate: the grammar has matched the written predicate and  *)
(* build_predicate turns its parse tree into an Expr.                      *)
(***************************************************************************)
PField(t)      == Pair("field_ref", t, <<>>)
PString(chars) == Pair("string", <<"\"">> \o chars \o <<"\"">>, <<>>)
PNumber(t)     == Pair("number", t, <<>>)
PBoolean(t)    == Pair("boolean", t, <<>>)
PNull          == Pair("null", <<"n", "u", "l", "l">>, <<>>)
PValue(p)      == Pair("value", p.text, <<p>>)
PRegex(pat)    == Pair("regex", <<"/">> \o pat \o <<"/">>, <<>>)
PComparator(t) == Pair("comparator", t, <<>>)

\* [v1, v2, ...]
PList(values) ==
    Pair("list",
         <<"[">> \o join([i \in 1..Len(values) |-> values[i].text], <<",", " ">>)
                \o <<"]">>,
         values)

\* field OP operand, the text with one space around the operator
PPredicate(field, opText, opPairs, operand) ==
    Pair("predicate",
         field.text \o <<" ">> \o opText \o <<" ">> \o operand.text,
         <<field>> \o opPairs \o <<operand>>)

\* A written predicate: the shape and operator of the grammar alternative
\* that matched, and the parse tree.
Written(shape, op, pair) == [shape |-> shape, op |-> op, pair |-> pair]

WCompare(f, cmp, v) ==
    Written("Compare", comparator_op(cmp),
            PPredicate(f, cmp, <<PComparator(cmp)>>, PValue(v)))

WMembership(f, op, target) ==
    Written("Membership", op,
            PPredicate(f, IF op = "In" THEN <<"i", "n">>
                          ELSE <<"n", "o", "t", " ", "i", "n">>,
                       <<>>, target))

WContains(f, v) ==
    Written("Contains", "Contains",
            PPredicate(f, <<"c", "o", "n", "t", "a", "i", "n", "s">>, <<>>, PValue(v)))

WRegexMatch(f, pat) ==
    Written("RegexMatch", "~", PPredicate(f, <<"~">>, <<>>, PRegex(pat)))

pAB == PField(<<"a", ".", "b">>)
pCD == PField(<<"c", ".", "d">>)

\* The characters between the quotes of the string literals written.
StringTexts == {<<"y">>, sIn, sNotIn, sContains, sTilde}

ScalarOperands ==
    {PString(t) : t \in StringTexts}
    \cup {PNumber(<<"1">>), PBoolean(<<"t", "r", "u", "e">>), PNull, pCD}

ListOperands ==
    {PList(<<PValue(PString(t))>>) : t \in StringTexts}
    \cup {PList(<<PValue(PNumber(<<"1", "2">>)), PValue(pCD)>>)}

Comparators ==
    {<<"=", "=">>, <<"!", "=">>, <<"<">>, <<"<", "=">>, <<">">>, <<">", "=">>}

WrittenPredicates ==
    {WCompare(pAB, c, v) : c \in Comparators, v \in ScalarOperands}
    \cup {WMembership(pAB, op, t) : op \in MembershipOp, t \in ListOperands \cup {pCD}}
    \cup {WContains(pAB, v) : v \in ScalarOperands}
    \cup {WRegexMatch(pAB, pat) : pat \in {reGood, <<"i", "n">>, <<"y", " ", "i", "n", " ", "y">>}}

InitParse ==
    /\ source \in WrittenPredicates
    /\ parsed = None
    /\ expr = None
    /\ dict = <<>>
    /\ ctx = <<>>
    /\ fns = with_builtins
    /\ nreg = 0
    /\ regs = <<LenFn>>
    /\ pc = "source"
    /\ tc = None
    /\ deps = None
    /\ result = None
    /\ trace = <<>>

\* build_predicate(pair)
ParsePredicate ==
    /\ pc = "source"
    /\ parsed' = build_predicate(source.pair)
    /\ pc' = "parsed"
    /\ UNCHANGED <<expr, dict, ctx, fns, nreg, tc, deps, result, trace, source, regs>>

NextParse == ParsePredicate

SpecParse == InitParse /\ [][NextParse]_vars

(***************************************************************************)
(* Building a registry: new() or with_builtins(), then registrations.      *)
(***************************************************************************)
InitRegistry ==
    /\ \/ fns = FunctionRegistry_new /\ regs = <<>>
       \/ fns = with_builtins /\ regs = <<LenFn>>
    /\ nreg = 0
    /\ pc = "registry"
    /\ expr = None
    /\ dict = <<>>
    /\ ctx = <<>>
    /\ tc = None
    /\ deps = None
    /\ result = None
    /\ trace = <<>>
    /\ source = None
    /\ parsed = None

NextRegistry == \E f \in AllFunctions : Register(f)

SpecRegistry == InitRegistry /\ [][NextRegistry]_vars

TypeOK ==
    /\ expr \in ExprPool
    /\ pc \in {"setup", "checked", "indexed", "done"}
    /\ nreg \in 0..MaxRegister
    /\ tc.tag \in {"None", "Ok", "Err"}
    /\ result.tag \in {"None", "Ok", "Err"}
    /\ (pc = "done") = (result # None)

(***************************************************************************)
(* Properties.                                                             *)
(***************************************************************************)
Evaluated == pc = "done"
Checked   == pc # "setup"
Indexed   == pc \in {"indexed", "done"}

RECURSIVE HasType(_, _)
\* The value v is a value of the declared type t.
HasType(v, t) ==
    CASE t.ty = "Any" -> TRUE
      [] t.ty = "Set" -> /\ v.v = "Set"
                         /\ \A i \in 1..Len(v.items) : HasType(v.items[i], t.inner)
      [] OTHER        -> v.v = t.ty

\* The context holds, for every declared field, a value of the declared type.
ContextConforms ==
    \A f \in DOMAIN dict :
        /\ as_dotted(f) \in DOMAIN ctx
        /\ HasType(ctx[as_dotted(f)], dict[f])

\* Every registered function returns a value of its declared return type on
\* arguments of its declared parameter types.
RegistryConforms == \A n \in DOMAIN fns : fns[n] \in {LenFn, StartsWithFn}

IsTypeError(r) == r.tag = "Err" /\ r.err = "Type"

\* C1: an expression accepted by typecheck, evaluated against a context that
\* holds a value of the declared type for every declared field, with a
\* registry whose functions conform to their signatures, never returns
\* EvalError::Type.
C1_TypeSoundness ==
    (Evaluated /\ tc.tag = "Ok" /\ ContextConforms /\ RegistryConforms)
        => ~ IsTypeError(result)

\* The value of lhs on which the logical operator short-circuits.
ShortValue(op) == (op = "Or")

\* The lhs of the Logical expression evaluates to the short-circuit value.
ShortCircuits ==
    /\ expr.kind = "Logical"
    /\ eval_value(expr.lhs, ctx, fns).res = Ok(VBool(ShortValue(expr.op)))

\* C2: when the lhs of And evaluates to false, or the lhs of Or to true, the
\* result is that value and the lookups and calls performed are exactly
\* those of lhs: nothing of rhs is evaluated.
C2_ShortCircuit ==
    (Evaluated /\ ShortCircuits) =>
        /\ result = OkBool(ShortValue(expr.op))
        /\ trace = eval_value(expr.lhs, ctx, fns).trace

\* A short-circuited expression whose rhs fails when evaluated on its own.
C2_Witness ==
    /\ Evaluated /\ ShortCircuits
    /\ IsErr(eval_value(expr.rhs, ctx, fns).res)
    /\ result = OkBool(ShortValue(expr.op))

\* The field of a predicate or bare Field node.
NodeField(e) == IF e.kind = "Field" THEN e.fr ELSE e.field

FieldNodeKinds == {"Compare", "Membership", "Contains", "RegexMatch", "Field"}

\* The dotted path written out, independently of as_dotted.
DottedText(fr) == IF fr = frAB THEN <<"a", ".", "b">> ELSE <<"c", ".", "d">>

MissingNodeField ==
    /\ expr.kind \in FieldNodeKinds
    /\ DottedText(NodeField(expr)) \notin DOMAIN ctx

\* C3: evaluating a Compare, Membership, Contains, RegexMatch or Field node
\* whose field is not a key of the context fails with MissingField carrying
\* that field's dotted path, whatever the operator and the operand.
C3_MissingField ==
    (Evaluated /\ MissingNodeField) =>
        result = MissingField(DottedText(NodeField(expr)))

\* A comparison of a missing field with an operand that is missing too.
C3_Witness ==
    /\ Evaluated /\ MissingNodeField
    /\ expr.kind = "Compare" /\ expr.value = Field(frCD)
    /\ DottedText(frCD) \notin DOMAIN ctx
    /\ result = MissingField(<<"a", ".", "b">>)

ExistsForm ==
    /\ expr.kind = "Call" /\ expr.name = "exists"
    /\ Len(expr.args) = 1 /\ expr.args[1].kind = "Field"

\* C4: exists(field) is true exactly when the field's dotted path is a key of
\* the context, never an error; its only access is the presence test: the
\* stored value is not read and the registry is not consulted, also when a
\* function named "exists" is registered.
C4_ExistsSpecialForm ==
    (Evaluated /\ ExistsForm) =>
        /\ result = OkBool(DottedText(expr.args[1].fr) \in DOMAIN ctx)
        /\ trace = <<EvHas(DottedText(expr.args[1].fr))>>

\* exists on an absent field while a function named "exists" is registered.
C4_Witness ==
    /\ Evaluated /\ ExistsForm
    /\ "exists" \in DOMAIN fns
    /\ DottedText(expr.args[1].fr) \notin DOMAIN ctx
    /\ result = OkBool(FALSE)

\* C5: a field member of a list literal stands for the field's current
\* value: `a.b in ["y", c.d]` fails with MissingField when c.d is absent and
\* is true when a.b equals the context value of c.d.
C5_ListMembersResolved ==
    (/\ Evaluated
     /\ expr = EMembership(frAB, "In", Lit(listYCD))
     /\ DottedText(frAB) \in DOMAIN ctx) =>
        IF DottedText(frCD) \notin DOMAIN ctx
        THEN result = MissingField(DottedText(frCD))
        ELSE (ctx[DottedText(frAB)] = ctx[DottedText(frCD)]) => result = OkBool(TRUE)

\* The elements of a Set value.
Elements(set) == {set.items[i] : i \in 1..Len(set.items)}

\* The same Membership node with the other operator.
Negated(e) == [e EXCEPT !.op = IF @ = "In" THEN "NotIn" ELSE "In"]

\* C6: `field in target` is true exactly when the target resolves to a Set
\* holding an element equal to the field's value, `not in` is its negation,
\* and both fail alike: MissingField for an absent field, Type for a target
\* that is not a Set.
C6_Membership ==
    (Evaluated /\ expr.kind = "Membership") =>
        LET key    == DottedText(expr.field)
            other  == eval_with_registry(Negated(expr), ctx, fns).res
            target == eval_lit_or_field(expr.list, ctx, fns).res
        IN  IF key \notin DOMAIN ctx
            THEN result = MissingField(key) /\ other = result
            ELSE IF IsErr(target)
            THEN result = target /\ result.err = "MissingField" /\ other = result
            ELSE IF target.val.v # "Set"
            THEN IsTypeError(result) /\ other = result
            ELSE /\ result = OkBool((ctx[key] \in Elements(target.val))
                                        <=> (expr.op = "In"))
                 /\ other = OkBool(~ result.b)

\* `not in` on a set that holds the field's value.
C6_Witness ==
    /\ Evaluated /\ expr.kind = "Membership" /\ expr.op = "NotIn"
    /\ expr.list = Field(frCD)
    /\ result = OkBool(FALSE)

RECURSIVE LiteralOrFieldRefs(_)
\* Every FieldRef inside a literal, a list literal's members at any nesting.
LiteralRefs(l) ==
    IF l.lit = "List"
    THEN UNION {LiteralOrFieldRefs(l.items[i]) : i \in 1..Len(l.items)}
    ELSE {}

LiteralOrFieldRefs(v) ==
    IF v.lof = "Field" THEN {v.fr} ELSE LiteralRefs(v.l)

RECURSIVE ExprRefs(_)
\* Every FieldRef that occurs anywhere in the tree.
ExprRefs(e) ==
    CASE e.kind = "Not"        -> ExprRefs(e.e)
      [] e.kind = "Logical"    -> ExprRefs(e.lhs) \cup ExprRefs(e.rhs)
      [] e.kind = "Compare"    -> {e.field} \cup LiteralOrFieldRefs(e.value)
      [] e.kind = "Membership" -> {e.field} \cup LiteralOrFieldRefs(e.list)
      [] e.kind = "Contains"   -> {e.field} \cup LiteralOrFieldRefs(e.value)
      [] e.kind = "RegexMatch" -> {e.field}
      [] e.kind = "Call"       -> UNION {ExprRefs(e.args[i]) : i \in 1..Len(e.args)}
      [] e.kind = "Literal"    -> LiteralRefs(e.l)
      [] e.kind = "Field"      -> {e.fr}

RECURSIVE ExprCalls(_)
\* The names of all Call nodes of the tree.
ExprCalls(e) ==
    CASE e.kind = "Not"     -> ExprCalls(e.e)
      [] e.kind = "Logical" -> ExprCalls(e.lhs) \cup ExprCalls(e.rhs)
      [] e.kind = "Call"    ->
            {e.name} \cup UNION {ExprCalls(e.args[i]) : i \in 1..Len(e.args)}
      [] OTHER              -> {}

\* C7: extract_dependencies returns the dotted form of every FieldRef of the
\* tree, list literals under Expr::Literal included, and nothing else, and
\* the names of all Call nodes.
C7_DependencyCompleteness ==
    Indexed =>
        /\ deps.fields = {DottedText(fr) : fr \in ExprRefs(expr)}
        /\ deps.functions = ExprCalls(expr)

\* C8: typecheck returns Ok only with Bool; a well-typed tree whose root is
\* not Bool (a Number field, a non-boolean literal, a call returning Number)
\* gives NotBoolean, and an error found inside the tree is returned as it is.
C8_BooleanRoot ==
    Checked =>
        LET ty == infer(expr, dict, function_signatures(fns)) IN
        /\ tc.tag = "Ok" => tc.ty = TyBool
        /\ IsErr(ty) => tc = ty
        /\ (ty.tag = "Ok" /\ ty.ty # TyBool) => tc = NotBoolean
        /\ ty = OkTy(TyBool) => tc = ty
        /\ (expr.kind = "Field" /\ expr.fr \in DOMAIN dict /\ dict[expr.fr] # TyBool)
              => tc = NotBoolean
        /\ (expr.kind = "Literal" /\ expr.l.lit # "Bool") => tc = NotBoolean
        /\ (expr.kind = "Call" /\ expr.name = "len"
                /\ Len(expr.args) = 1 /\ expr.args[1].kind = "Literal")
              => tc = NotBoolean

\* A bare field declared Number.
C8_Witness ==
    /\ Checked
    /\ expr = EField(frAB) /\ frAB \in DOMAIN dict /\ dict[frAB] = TyNumber
    /\ tc = NotBoolean

\* The pattern does not compile (an unclosed group).
BadPattern(p) == \E i \in 1..Len(p) : p[i] = "("

RECURSIVE BadRegexNodes(_)
\* The RegexMatch nodes of the tree whose pattern does not compile.
BadRegexNodes(e) ==
    CASE e.kind = "Not"        -> BadRegexNodes(e.e)
      [] e.kind = "Logical"    -> BadRegexNodes(e.lhs) \cup BadRegexNodes(e.rhs)
      [] e.kind = "Call"       ->
            UNION {BadRegexNodes(e.args[i]) : i \in 1..Len(e.args)}
      [] e.kind = "RegexMatch" -> IF BadPattern(e.pattern) THEN {e} ELSE {}
      [] OTHER                 -> {}

\* The tree has a RegexMatch on a String-declared field whose pattern does
\* not compile.
HasBadRegex ==
    \E n \in BadRegexNodes(expr) :
        n.field \in DOMAIN dict /\ dict[n.field] = TyString

RECURSIVE Repaired(_)
\* The tree with every pattern that does not compile replaced by one that
\* does.
Repaired(e) ==
    CASE e.kind = "Not"        -> ENot(Repaired(e.e))
      [] e.kind = "Logical"    -> ELogical(e.op, Repaired(e.lhs), Repaired(e.rhs))
      [] e.kind = "Call"       ->
            ECall(e.name, [i \in 1..Len(e.args) |-> Repaired(e.args[i])])
      [] e.kind = "RegexMatch" ->
            IF BadPattern(e.pattern) THEN ERegexMatch(e.field, reGood) ELSE e
      [] OTHER                 -> e

IsRegexError(r) == r.tag = "Err" /\ r.err = "Regex"

\* C9 as stated: a RegexMatch on a String-declared field whose pattern does
\* not compile makes typecheck fail with InvalidRegex wherever the node
\* sits in the tree, and no accepted expression returns EvalError::Regex.
C9_RegexFailFast_Original ==
    /\ (Checked /\ HasBadRegex) => (tc.tag = "Err" /\ tc.err = "InvalidRegex")
    /\ (Evaluated /\ tc.tag = "Ok") => ~ IsRegexError(result)

\* C9 as amended: such a node makes typecheck fail wherever it sits; the
\* error is InvalidRegex when the rest of the tree is well typed (an error
\* met earlier in the walk is returned instead); no accepted expression
\* returns EvalError::Regex.
C9_RegexFailFast ==
    /\ (Checked /\ HasBadRegex) =>
          /\ tc.tag = "Err"
          /\ infer(Repaired(expr), dict, function_signatures(fns)).tag = "Ok"
                => tc.err = "InvalidRegex"
    /\ (Evaluated /\ tc.tag = "Ok") => ~ IsRegexError(result)

\* A pattern that does not compile below a logical operator, rejected as
\* InvalidRegex.
C9_Witness ==
    /\ Checked /\ HasBadRegex
    /\ expr.kind = "Logical" /\ expr.rhs = ERegexMatch(frAB, reBad)
    /\ tc.tag = "Err" /\ tc.err = "InvalidRegex"

\* C10: a Compare of a Bool-declared field with a Bool operand is accepted
\* for Eq and Ne only; Lt, Le, Gt and Ge fail with TypeMismatch.
C10_BoolCompareOps ==
    (/\ Checked
     /\ expr.kind = "Compare"
     /\ expr.field \in DOMAIN dict /\ dict[expr.field] = TyBool
     /\ infer_value(expr.value, dict) = OkTy(TyBool)) =>
        IF expr.op \in {"Eq", "Ne"}
        THEN tc = OkTy(TyBool)
        ELSE tc.tag = "Err" /\ tc.err = "TypeMismatch"


(***************************************************************************)
(* C11  Predicate shape is decided by grammar structure, not by text: a    *)
(* predicate written with a comparator, in / not in, contains or ~ is      *)
(* parsed to Compare, Membership (with the written In / NotIn operator),   *)
(* Contains or RegexMatch respectively, also when a string or list literal *)
(* operand contains " in ", " not in ", " contains " or "~"; the parser    *)
(* neither misclassifies such a predicate nor aborts on it.                *)
(***************************************************************************)
Parsed == pc = "parsed"

ParsedShape ==
    /\ parsed.tag = "Ok"
    /\ parsed.expr.kind = source.shape
    /\ source.shape \in {"Compare", "Membership"} => parsed.expr.op = source.op

C11_ShapeByGrammar == Parsed => ParsedShape

\* a comparison whose string operand is "~": find(regex).unwrap() panics
C11_Aborts ==
    /\ Parsed
    /\ source = WCompare(pAB, <<"=", "=">>, PString(sTilde))
    /\ parsed = Panic

\* a comparison whose string operand is " contains ": parsed as Contains
C11_Misclassified ==
    /\ Parsed
    /\ source = WCompare(pAB, <<"=", "=">>, PString(sContains))
    /\ parsed = [tag |-> "Ok", expr |-> EContains(frAB, Lit(LitString(sContains)))]

(***************************************************************************)
(* C12  Registry overwrite semantics: after any sequence of register calls *)
(* get(name) returns the function most recently registered under that name *)
(* and None for a name never registered; registering a function under one  *)
(* name leaves get for every other name unchanged; with_builtins() yields  *)
(* a registry in which get("len") is present until it is overwritten.      *)
(***************************************************************************)
Building == pc = "registry"

\* The names asked for: every name a function of the pool has, and one
\* that none has.
Names == {Function_name(f) : f \in AllFunctions} \cup {"unregistered"}

RegisteredAs(name) == {i \in 1..Len(regs) : Function_name(regs[i]) = name}

LastRegistered(name) ==
    IF RegisteredAs(name) = {} THEN None
    ELSE LET last == CHOOSE i \in RegisteredAs(name) :
                        \A j \in RegisteredAs(name) : j <= i
         IN [tag |-> "Some", f |-> regs[last]]

GetIsLastRegistered ==
    \A n \in Names : FunctionRegistry_get(fns, n) = LastRegistered(n)

\* a step that registers f changes get for the name of f only
OtherNamesUnchanged ==
    \A f \in AllFunctions :
        regs' = Append(regs, f) =>
            \A n \in Names \ {Function_name(f)} :
                FunctionRegistry_get(fns', n) = FunctionRegistry_get(fns, n)

\* the builtin of with_builtins() is what get("len") gives until a
\* function named "len" is registered
BuiltinUntilOverwritten ==
    (regs # <<>> /\ regs[1] = LenFn /\ RegisteredAs("len") = {1}) =>
        FunctionRegistry_get(fns, "len") = [tag |-> "Some", f |-> LenFn]

C12_RegistryOverwrite ==
    /\ [](Building => GetIsLastRegistered /\ BuiltinUntilOverwritten)
    /\ [][Building => OtherNamesUnchanged]_vars

C12_Witness ==
    /\ Building
    /\ regs = <<LenFn, StartsWithFn, TenantLenFn>>
    /\ FunctionRegistry_get(fns, "len") = [tag |-> "Some", f |-> TenantLenFn]
    /\ FunctionRegistry_get(fns, "starts_with") = [tag |-> "Some", f |-> StartsWithFn]
    /\ FunctionRegistry_get(fns, "exists") = None

(***************************************************************************)
(* C13  Call evaluation order (calls other than the exists special form):  *)
(* every argument is evaluated, left to right, before the function is      *)
(* looked up; the first argument that fails ends the evaluation with that  *)
(* argument's error, later arguments and the function untouched; only after*)
(* all arguments succeeded is the name looked up, giving the "unknown      *)
(* function" Type error when absent, otherwise the function is invoked     *)
(* exactly once with the argument values in order and its result or error  *)
(* is returned.                                                            *)
(***************************************************************************)
RECURSIVE CallNodes(_)
CallNodes(e) ==
    CASE e.kind = "Not"     -> CallNodes(e.e)
      [] e.kind = "Logical" -> CallNodes(e.lhs) \cup CallNodes(e.rhs)
      [] e.kind = "Call"    ->
            {e} \cup UNION {CallNodes(e.args[i]) : i \in 1..Len(e.args)}
      [] OTHER -> {}

RECURSIVE TracesUpTo(_, _)
TracesUpTo(outs, k) ==
    IF k = 0 THEN <<>> ELSE TracesUpTo(outs, k - 1) \o outs[k].trace

\* What the evaluation of call node n must be, from the evaluations of its
\* arguments taken one by one.
CallInOrder(n) ==
    LET outs    == [i \in 1..Len(n.args) |-> eval_value(n.args[i], ctx, fns)]
        failing == {i \in 1..Len(n.args) : IsErr(outs[i].res)}
        first   == CHOOSE i \in failing : \A j \in failing : i <= j
        argv    == [i \in 1..Len(n.args) |-> outs[i].res.val]
        f       == FunctionRegistry_get(fns, n.name)
        whole   == eval_value(n, ctx, fns)
    IN  IF failing # {}
        THEN whole = Step(outs[first].res, TracesUpTo(outs, first))
        ELSE IF f = None
        THEN /\ whole.res.tag = "Err" /\ whole.res.err = "Type"
             /\ whole.res.msg = "unknown function {}" /\ whole.res.name = n.name
             /\ whole.trace = TracesUpTo(outs, Len(n.args)) \o <<EvFnGet(n.name)>>
        ELSE /\ whole.res = Function_call(f.f, argv, ctx)
             /\ whole.trace = TracesUpTo(outs, Len(n.args))
                                 \o <<EvFnGet(n.name), EvCall(f.f, argv)>>

C13_CallOrder ==
    Evaluated =>
        /\ \A n \in CallNodes(expr) : ~is_exists_form(n) => CallInOrder(n)
        /\ (expr.kind = "Call" /\ ~is_exists_form(expr)) =>
                trace = eval_value(expr, ctx, fns).trace

\* starts_with(a.b, c.d) with a.b absent, c.d present and starts_with
\* registered: the error of the first argument, c.d and the function
\* untouched.
C13_Witness ==
    /\ Evaluated
    /\ expr = ECall("starts_with", <<EField(frAB), EField(frCD)>>)
    /\ as_dotted(frAB) \notin DOMAIN ctx
    /\ as_dotted(frCD) \in DOMAIN ctx
    /\ FunctionRegistry_get(fns, "starts_with") # None
    /\ result = MissingField(as_dotted(frAB))
    /\ trace = <<EvGet(as_dotted(frAB))>>

(***************************************************************************)
(* C14  Membership type rule: typecheck accepts a Membership node exactly  *)
(* when (a) the field's declared type is String, Number or Set(_) and the  *)
(* list operand is a literal list, or (b) the field's declared type is     *)
(* String and the list operand is a field declared Set(String); an         *)
(* undeclared field gives UnknownField.  As stated, every other shape with *)
(* a known field fails with TypeMismatch; as the code has it, a String     *)
(* field against an undeclared operand field gives UnknownField of the     *)
(* operand, and every other shape with a known field TypeMismatch.         *)
(***************************************************************************)
MembershipRoot == Checked /\ expr.kind = "Membership"

FieldDeclared == expr.field \in DOMAIN dict

LiteralListOperand == expr.list.lof = "Lit" /\ expr.list.l.lit = "List"

\* (a) or (b)
LegalMembership ==
    \/ /\ dict[expr.field].ty \in {"String", "Number", "Set"}
       /\ LiteralListOperand
    \/ /\ dict[expr.field] = TyString
       /\ expr.list.lof = "Field"
       /\ expr.list.fr \in DOMAIN dict
       /\ dict[expr.list.fr] = TySet(TyString)

\* a String field against an operand field that is not declared
UndeclaredOperand ==
    /\ dict[expr.field] = TyString
    /\ expr.list.lof = "Field"
    /\ expr.list.fr \notin DOMAIN dict

IsTypeMismatch == tc.tag = "Err" /\ tc.err = "TypeMismatch"

AcceptedExactly ==
    /\ tc.tag = "Ok" <=> (FieldDeclared /\ LegalMembership)
    /\ ~FieldDeclared => tc = UnknownField(as_dotted(expr.field))

\* the rule as stated
C14_MembershipRule_Original ==
    MembershipRoot =>
        /\ AcceptedExactly
        /\ (FieldDeclared /\ ~LegalMembership) => IsTypeMismatch

\* the rule as the code has it
C14_MembershipRule ==
    MembershipRoot =>
        /\ AcceptedExactly
        /\ (FieldDeclared /\ ~LegalMembership) =>
                IF UndeclaredOperand
                THEN tc = UnknownField(as_dotted(expr.list.fr))
                ELSE IsTypeMismatch

\* a String field against an undeclared operand field
C14_Witness ==
    /\ MembershipRoot
    /\ FieldDeclared /\ UndeclaredOperand
    /\ expr = EMembership(frAB, "In", Field(frCD))
    /\ tc = UnknownField(as_dotted(frCD))

(***************************************************************************)
(* C15  Dependency sufficiency: if the context has a key for every path in *)
(* extract_dependencies(expr).fields, evaluation with the builtin registry *)
(* never returns EvalError::MissingField.                                  *)
(***************************************************************************)
BuiltinRegistry == fns = with_builtins

DependenciesPresent == deps.fields \subseteq DOMAIN ctx

IsMissingField == result.tag = "Err" /\ result.err = "MissingField"

C15_DependencySufficiency ==
    (Evaluated /\ BuiltinRegistry /\ DependenciesPresent) => ~IsMissingField

\* both fields are dependencies, both are present, and the evaluation that
\* read them ends in a boolean
C15_Witness ==
    /\ Evaluated /\ BuiltinRegistry /\ DependenciesPresent
    /\ deps.fields = {as_dotted(frAB), as_dotted(frCD)}
    /\ trace = <<EvGet(as_dotted(frAB)), EvGet(as_dotted(frCD))>>
    /\ result = OkBool(TRUE)

(***************************************************************************)
(* C16  Dependency-bounded reads: two contexts that agree on every key in  *)
(* extract_dependencies(expr).fields (same presence, same value) give the  *)
(* same outcome under the builtin registry, the same boolean or the same   *)
(* error; entries outside the dependency set cannot influence the verdict. *)
(***************************************************************************)
ContextPool == {EvalContext_new(ab, cd) : ab \in SetupsAB, cd \in SetupsCD}

AgreeOn(keys, c1, c2) ==
    \A k \in keys :
        /\ k \in DOMAIN c1 <=> k \in DOMAIN c2
        /\ k \in DOMAIN c1 => c1[k] = c2[k]

C16_DependencyBoundedReads ==
    (Evaluated /\ BuiltinRegistry) =>
        \A c2 \in ContextPool :
            AgreeOn(deps.fields, ctx, c2) =>
                eval_with_registry(expr, c2, with_builtins).res = result

\* a.b is the only dependency and is read; a context that differs in c.d
\* gives the same boolean
C16_Witness ==
    /\ Evaluated /\ BuiltinRegistry
    /\ deps.fields = {as_dotted(frAB)}
    /\ trace = <<EvGet(as_dotted(frAB))>>
    /\ result = OkBool(TRUE)
    /\ as_dotted(frCD) \in DOMAIN ctx
    /\ \E c2 \in ContextPool :
          /\ AgreeOn(deps.fields, ctx, c2)
          /\ as_dotted(frCD) \notin DOMAIN c2
          /\ eval_with_registry(expr, c2, with_builtins).res = result
====
